---------------------------- MODULE Spec2Model ----------------------------
(***************************************************************************)
(* Model of src/app.py: the SeaTalk backlog bot.  A POST /webhook request  *)
(* is authenticated, parsed, classified and, when its text is the trigger  *)
(* word, answered with the backlog rows of a Google Sheet.                 *)
(*                                                                         *)
(* Strings are sequences of characters, each character a one-character     *)
(* TLA+ string; a character outside ASCII is written by its code point     *)
(* ("U+2022" is the bullet).  A Python value is a record [k, v] whose k    *)
(* is its type ("none", "str", "int", "dict") and whose v is its content.  *)
(***************************************************************************)
EXTENDS Integers, Sequences, FiniteSets, TLC

---------------------------------------------------------------------------
(* Bounds of the model.                                                    *)

\* the longest sheet (number of data rows) the row filter is run on
MaxRows == 2

\* the number of request slots of the server
MaxRequests == 2
MaxTasks == 3

---------------------------------------------------------------------------
(* Python values.                                                          *)

PyNone == [k |-> "none", v |-> 0]
PyStr(s) == [k |-> "str", v |-> s]
PyInt(n) == [k |-> "int", v |-> n]
PyDict(d) == [k |-> "dict", v |-> d]

\* the empty dict: a function with no key
EmptyDict == PyDict(<<>>)

\* bool(x): None, '', 0 and {} are false
Truthy(x) ==
    CASE x.k = "none" -> FALSE
      [] x.k = "str" -> x.v # <<>>
      [] x.k = "int" -> x.v # 0
      [] x.k = "dict" -> DOMAIN x.v # {}

\* d.get(key, default) on the content of a dict
dict_get(d, key, default) == IF key \in DOMAIN d THEN d[key] ELSE default

---------------------------------------------------------------------------
(* Strings.                                                                *)

\* the characters str.strip() removes from both ends
Whitespace == {" ", "\t", "\n", "\r"}

LowerOf ==
    [A |-> "a", B |-> "b", C |-> "c", D |-> "d", E |-> "e", F |-> "f",
     G |-> "g", H |-> "h", I |-> "i", J |-> "j", K |-> "k", L |-> "l",
     M |-> "m", N |-> "n", O |-> "o", P |-> "p", Q |-> "q", R |-> "r",
     S |-> "s", T |-> "t", U |-> "u", V |-> "v", W |-> "w", X |-> "x",
     Y |-> "y", Z |-> "z"]

\* str.lower()
lower(s) ==
    [i \in 1..Len(s) |-> IF s[i] \in DOMAIN LowerOf THEN LowerOf[s[i]] ELSE s[i]]

\* str.upper(), used to build the upper-case spelling of a hex digest
upper(s) ==
    [i \in 1..Len(s) |->
        IF \E c \in DOMAIN LowerOf : LowerOf[c] = s[i]
        THEN CHOOSE c \in DOMAIN LowerOf : LowerOf[c] = s[i]
        ELSE s[i]]

\* str.strip()
strip(s) ==
    LET kept == {i \in 1..Len(s) : s[i] \notin Whitespace}
    IN IF kept = {} THEN <<>>
       ELSE SubSeq(s, CHOOSE i \in kept : \A j \in kept : i <= j,
                      CHOOSE i \in kept : \A j \in kept : j <= i)

DigitChars == <<"0", "1", "2", "3", "4", "5", "6", "7", "8", "9">>

RECURSIVE DecimalOf(_)
DecimalOf(n) ==
    IF n < 10 THEN <<DigitChars[n + 1]>>
    ELSE Append(DecimalOf(n \div 10), DigitChars[(n % 10) + 1])

\* str(x) of a cell value: a string is itself, a number its decimal digits
str(x) == IF x.k = "str" THEN x.v ELSE DecimalOf(x.v)

RECURSIVE join(_, _)
\* sep.join(lines)
join(sep, lines) ==
    IF lines = <<>> THEN <<>>
    ELSE IF Len(lines) = 1 THEN lines[1]
    ELSE lines[1] \o sep \o join(sep, Tail(lines))

\* 'backlog'
BacklogWord == <<"b", "a", "c", "k", "l", "o", "g">>

\* 'new_message'
NewMessage == <<"n", "e", "w", "_", "m", "e", "s", "s", "a", "g", "e">>

---------------------------------------------------------------------------
(* Row filter: the loop of get_backlog_tasks over the sheet's records.     *)
(* A row is an ordered dict: a sequence of <<column, value>> pairs in      *)
(* the sheet's column order; a cell is a string or a number (gspread       *)
(* returns numeric cells as numbers).                                      *)

HasColumn(row, col) == \E i \in 1..Len(row) : row[i][1] = col

\* row.get(col, default)
row_get(row, col, default) ==
    IF HasColumn(row, col)
    THEN row[CHOOSE i \in 1..Len(row) : row[i][1] = col][2]
    ELSE default

\* row.get('Status', row.get('status', ''))
status_value(row) == row_get(row, "Status", row_get(row, "status", PyStr(<<>>)))

\* status_value.strip() raises AttributeError on a non-empty value that is
\* no string (the "status_value and" guard lets 0 through as "no status")
StatusRaises(row) == Truthy(status_value(row)) /\ status_value(row).k # "str"

\* a looser test: 'backlog' in status_value.lower()
StatusContainsBacklog(row) ==
    /\ Truthy(status_value(row))
    /\ status_value(row).k = "str"
    /\ \E i \in 1..Len(status_value(row).v) :
          \E j \in i..Len(status_value(row).v) :
              lower(SubSeq(status_value(row).v, i, j)) = BacklogWord

\* status_value and status_value.strip().lower() == 'backlog'
StatusIsBacklog(row) ==
    /\ Truthy(status_value(row))
    /\ status_value(row).k = "str"
    /\ lower(strip(status_value(row).v)) = BacklogWord

\* a resolution that also falls back when the named column is empty
task_name_or_first_column(row) ==
    LET named == row_get(row, "Nome da tarefa",
                   row_get(row, "Tarefa",
                     row_get(row, "tarefa",
                       row_get(row, "nome", PyNone))))
    IN IF ~Truthy(named) /\ row # <<>> THEN row[1][2] ELSE named

\* the candidate columns of the task name, then the first column
task_name(row) ==
    LET named == row_get(row, "Nome da tarefa",
                   row_get(row, "Tarefa",
                     row_get(row, "tarefa",
                       row_get(row, "nome", PyNone))))
    IN IF named.k = "none" /\ row # <<>> THEN row[1][2] ELSE named

\* a test that forgets the .strip() of the name
HasTaskNameUntrimmed(row) == Truthy(task_name(row))

\* task_name and str(task_name).strip()
HasTaskName(row) ==
    /\ Truthy(task_name(row))
    /\ strip(str(task_name(row))) # <<>>

RECURSIVE backlog_loop_unique(_, _, _)
\* a loop that drops a name it has already appended
backlog_loop_unique(data, i, acc) ==
    IF i > Len(data) THEN [exc |-> FALSE, entries |-> acc]
    ELSE IF StatusRaises(data[i]) THEN [exc |-> TRUE, entries |-> <<>>]
    ELSE IF /\ StatusIsBacklog(data[i]) /\ HasTaskName(data[i])
            /\ \A n \in 1..Len(acc) :
                  acc[n].name # strip(str(task_name(data[i])))
         THEN backlog_loop_unique(data, i + 1,
                  Append(acc, [row |-> i,
                               name |-> strip(str(task_name(data[i])))]))
         ELSE backlog_loop_unique(data, i + 1, acc)

RECURSIVE backlog_loop(_, _, _)
\* the for loop from row i on; acc holds, for every task appended so far,
\* its name and the index of the row it was read from.  An exception in
\* one row leaves the function without a result.
backlog_loop(data, i, acc) ==
    IF i > Len(data) THEN [exc |-> FALSE, entries |-> acc]
    ELSE IF StatusRaises(data[i]) THEN [exc |-> TRUE, entries |-> <<>>]
    ELSE IF StatusIsBacklog(data[i]) /\ HasTaskName(data[i])
         THEN backlog_loop(data, i + 1,
                  Append(acc, [row |-> i,
                               name |-> strip(str(task_name(data[i])))]))
         ELSE backlog_loop(data, i + 1, acc)

NamesOf(entries) == [n \in 1..Len(entries) |-> entries[n].name]

---------------------------------------------------------------------------
(* Message formatter.                                                      *)

\* "U+1F4CB *Backlog atual:*\n\nNenhuma tarefa no backlog no momento."
EmptyBacklogMessage ==
    <<"U+1F4CB"," ","*","B","a","c","k","l","o","g"," ","a","t","u","a","l",
      ":","*","\n","\n","N","e","n","h","u","m","a"," ","t","a","r","e","f",
      "a"," ","n","o"," ","b","a","c","k","l","o","g"," ","n","o"," ","m",
      "o","m","e","n","t","o",".">>

\* "U+1F4CB *Backlog atual:*\n", the first element of message_lines
HeaderLine ==
    <<"U+1F4CB"," ","*","B","a","c","k","l","o","g"," ","a","t","u","a","l",
      ":","*","\n">>

\* "U+2022 ", the prefix of a task's line
Bullet == <<"U+2022", " ">>

\* the reply sent when the backlog could not be read
ErrorMessage ==
    <<"U+274C"," ","D","e","s","c","u","l","p","e",","," ","o","c","o","r",
      "r","e","u"," ","u","m"," ","e","r","r","o"," ","a","o"," ","c","o",
      "n","s","u","l","t","a","r"," ","o"," ","b","a","c","k","l","o","g",
      "."," ","T","e","n","t","e"," ","n","o","v","a","m","e","n","t","e",
      " ","m","a","i","s"," ","t","a","r","d","e",".">>

\* a formatter that lists the latest task first
format_backlog_message_reversed(task_list) ==
    IF task_list = <<>> THEN EmptyBacklogMessage
    ELSE join(<<"\n">>,
              <<HeaderLine>> \o [n \in 1..Len(task_list) |->
                                    Bullet \o task_list[Len(task_list) + 1 - n]])

format_backlog_message(task_list) ==
    IF task_list = <<>> THEN EmptyBacklogMessage
    ELSE join(<<"\n">>,
              <<HeaderLine>> \o [n \in 1..Len(task_list) |->
                                    Bullet \o task_list[n]])

---------------------------------------------------------------------------
(* Signature verification.                                                 *)
(* A raw request body is [json, doc, layout]: whether its bytes are JSON,  *)
(* the document they parse to, and which of two byte layouts (spacing,     *)
(* key order) of that document they are.                                   *)

RawBody(doc, layout) == [json |-> TRUE, doc |-> doc, layout |-> layout]
MalformedBody == [json |-> FALSE, doc |-> PyNone, layout |-> 0]

\* absence of a key in the documents built below
Absent == [k |-> "absent", v |-> 0]

\* the JSON object with the given top-level fields, Absent ones left out
Document(event_type, message, chat, challenge) ==
    LET field == [event_type |-> event_type, message |-> message,
                  chat |-> chat, seatalk_challenge |-> challenge]
    IN PyDict([key \in {c \in DOMAIN field : field[c] # Absent} |-> field[key]])

Text(s) == PyDict([text |-> PyStr(s)])
Chat(g) == PyDict([group_id |-> PyStr(g)])

G1 == <<"G", "1">>
G2 == <<"G", "2">>
Challenge1 == PyStr(<<"c", "1">>)
MsgNew == PyStr(NewMessage)
MsgOther == PyStr(<<"m", "e", "s", "s", "a", "g", "e", "_", "r", "e", "a", "d">>)
TextBacklog == <<"B", "a", "c", "k", "l", "o", "g">>
TextPadded == <<" ", "\t", "B", "A", "C", "K", "L", "O", "G", "\n">>
TextHello == <<"H", "e", "l", "l", "o">>
TextBacklogs == <<"b", "a", "c", "k", "l", "o", "g", "s">>
TextSplit == <<"b", "a", "c", "k", " ", "l", "o", "g">>

\* the request bodies the model sends
RawBodyList ==
    << MalformedBody,
       RawBody(EmptyDict, 0),
       RawBody(PyNone, 0),
       RawBody(PyStr(<<"x">>), 0),
       RawBody(Document(MsgNew, Text(TextBacklog), Chat(G1), Absent), 0),
       RawBody(Document(MsgNew, Text(TextBacklog), Chat(G1), Absent), 1),
       RawBody(Document(MsgNew, Text(TextPadded), Chat(G2), Absent), 0),
       RawBody(Document(MsgNew, Text(TextHello), Chat(G1), Absent), 0),
       RawBody(Document(MsgNew, Text(TextBacklogs), Chat(G1), Absent), 0),
       RawBody(Document(MsgNew, Text(TextSplit), Chat(G1), Absent), 0),
       RawBody(Document(MsgNew, Text(<<>>), Chat(G1), Absent), 0),
       RawBody(Document(MsgNew, EmptyDict, Chat(G1), Absent), 0),
       RawBody(Document(MsgNew, Absent, Chat(G1), Absent), 0),
       RawBody(Document(MsgNew, PyStr(TextBacklog), Chat(G1), Absent), 0),
       RawBody(Document(MsgNew, PyDict([text |-> PyInt(5)]), Chat(G1), Absent), 0),
       RawBody(Document(MsgNew, PyDict([text |-> PyNone]), Chat(G1), Absent), 0),
       RawBody(Document(MsgNew, Text(TextBacklog), Absent, Absent), 0),
       RawBody(Document(MsgNew, Text(TextBacklog), EmptyDict, Absent), 0),
       RawBody(Document(MsgNew, Text(TextBacklog), PyStr(G1), Absent), 0),
       RawBody(Document(MsgNew, Text(TextHello), PyNone, Absent), 0),
       RawBody(Document(MsgOther, Text(TextBacklog), Chat(G1), Absent), 0),
       RawBody(Document(Absent, Text(TextBacklog), Chat(G1), Absent), 0),
       RawBody(Document(PyInt(1), Text(TextBacklog), Chat(G1), Absent), 0),
       RawBody(Document(Absent, Absent, Absent, Challenge1), 0),
       RawBody(Document(MsgOther, Absent, Absent, Challenge1), 0),
       RawBody(Document(MsgNew, Text(TextBacklog), Chat(G1), Challenge1), 0) >>

RawBodies == {RawBodyList[n] : n \in 1..Len(RawBodyList)}

Secret1 == <<"s", "1">>
Secret2 == <<"s", "2">>
SecretKeys == <<Secret1, Secret2>>

HexChars ==
    <<"0", "1", "2", "3", "4", "5", "6", "7", "8", "9",
      "a", "b", "c", "d", "e", "f">>

IndexIn(list, x) == CHOOSE n \in 1..Len(list) : list[n] = x

\* hmac.new(key, msg, sha256).hexdigest(): lower-case hex digits, a
\* different digest for every (key, msg) the model uses
hmac_hexdigest(key, msg) ==
    <<HexChars[10 + IndexIn(SecretKeys, key)],
      HexChars[(IndexIn(RawBodyList, msg) \div 16) + 1],
      HexChars[(IndexIn(RawBodyList, msg) % 16) + 1],
      "f">>

\* a verifier that lets a request without a signature header through
verify_accepting_no_signature(request_data, signature, signing_secret) ==
    IF ~Truthy(signing_secret) THEN TRUE
    ELSE IF signature = <<>> THEN TRUE
    ELSE lower(signature) = lower(hmac_hexdigest(signing_secret.v, request_data))

\* a verifier that compares the header with the digest as written
verify_case_sensitive(request_data, signature, signing_secret) ==
    IF ~Truthy(signing_secret) THEN TRUE
    ELSE IF signature = <<>> THEN FALSE
    ELSE signature = hmac_hexdigest(signing_secret.v, request_data)

verify_webhook_signature(request_data, signature, signing_secret) ==
    IF ~Truthy(signing_secret) THEN TRUE
    ELSE IF signature = <<>> THEN FALSE
    ELSE lower(signature) = lower(hmac_hexdigest(signing_secret.v, request_data))

---------------------------------------------------------------------------
(* The process: its environment, its start, and the requests it serves.    *)

Reqs == 1..MaxRequests

VARIABLES
    env,              \* os.environ: a value or None for each variable read
    launch,           \* "main": python app.py; "wsgi": app imported by a server
    server,           \* "boot", "serving" or "exited"
    pc,               \* per request: "idle", "received", "fetch", "send", "done"
    request,          \* per request: [body, signature] as received
    response,         \* per request: [code, body] returned by webhook()
    group_id,         \* per request: webhook's local group_id
    app_token,        \* per request: webhook's local app_token
    fetched,          \* per request: what the spreadsheet service answered
    response_message, \* per request: webhook's local response_message
    calls,            \* per request: the outbound operations done, in order
    data,             \* row filter run alone: the records given to the loop
    filtered,         \* row filter run alone: the loop's result
    tasks,            \* formatter run alone: the list given to it
    formatted,        \* formatter run alone: the message returned
    signed,           \* verifier run alone: [body, signature, secret]
    verified          \* verifier run alone: the value returned

vars == <<env, launch, server, pc, request, response, group_id, app_token,
          fetched, response_message, calls, data, filtered, tasks,
          formatted, signed, verified>>

filterVars == <<data, filtered>>
unitVars == <<tasks, formatted, signed, verified>>

reqVars == <<pc, request, response, group_id, app_token, fetched,
             response_message, calls>>

Token1 == PyStr(<<"T", "1">>)
Present == PyStr(<<"x">>)

Envs ==
    [SIGNING_SECRET : {PyNone, PyStr(<<>>), PyStr(Secret1)},
     SEATALK_APP_TOKEN : {PyNone, Token1},
     GOOGLE_CREDENTIALS_BASE64 : {PyNone, Present},
     SHEET_ID : {PyNone, Present}]

\* required_vars of __main__
RequiredVars == {"GOOGLE_CREDENTIALS_BASE64", "SHEET_ID", "SEATALK_APP_TOKEN"}

\* missing_vars of __main__
missing_vars(e) == {var \in RequiredVars : ~Truthy(e[var])}

NoRequest == [body |-> MalformedBody, signature |-> <<"-">>]
NoResponse == [code |-> 0, body |-> [status |-> "none"]]
NoFetch == [ok |-> FALSE, called |-> FALSE, data |-> <<>>]
NoFilter == [ran |-> FALSE, exc |-> FALSE, entries |-> <<>>]
NoMessage == [ran |-> FALSE, message |-> <<>>]
NoSigned == [body |-> MalformedBody, signature |-> <<>>, secret |-> PyNone]
NoVerdict == [ran |-> FALSE, valid |-> FALSE]

\* the X-Seatalk-Signature headers sent with a body: none, and the digest
\* (in lower and in upper case) of this body or of another one, under the
\* configured secret or under another one
OtherBody(raw) == RawBodyList[(IndexIn(RawBodyList, raw) % Len(RawBodyList)) + 1]

SignaturesFor(raw) ==
    {<<>>}
    \cup {hmac_hexdigest(SecretKeys[n], b) :
             n \in 1..Len(SecretKeys), b \in {raw, OtherBody(raw)}}
    \cup {upper(hmac_hexdigest(SecretKeys[n], b)) :
             n \in 1..Len(SecretKeys), b \in {raw, OtherBody(raw)}}

Requests ==
    UNION {{[body |-> raw, signature |-> sig] : sig \in SignaturesFor(raw)} :
              raw \in RawBodies}

Init ==
    /\ env \in Envs
    /\ launch \in {"main", "wsgi"}
    /\ server = "boot"
    /\ pc = [r \in Reqs |-> "idle"]
    /\ request = [r \in Reqs |-> NoRequest]
    /\ response = [r \in Reqs |-> NoResponse]
    /\ group_id = [r \in Reqs |-> PyNone]
    /\ app_token = [r \in Reqs |-> PyNone]
    /\ fetched = [r \in Reqs |-> NoFetch]
    /\ response_message = [r \in Reqs |-> <<>>]
    /\ calls = [r \in Reqs |-> <<>>]
    /\ data = <<>>
    /\ filtered = NoFilter
    /\ tasks = <<>>
    /\ formatted = NoMessage
    /\ signed = NoSigned
    /\ verified = NoVerdict

\* python app.py: the __main__ block checks the required variables, then
\* app.run() serves
StartMain ==
    /\ server = "boot"
    /\ launch = "main"
    /\ server' = IF missing_vars(env) # {} THEN "exited" ELSE "serving"
    /\ UNCHANGED <<env, launch, reqVars, filterVars, unitVars>>

\* the module imported by a WSGI server: the __main__ block does not run
StartWsgi ==
    /\ server = "boot"
    /\ launch = "wsgi"
    /\ server' = "serving"
    /\ UNCHANGED <<env, launch, reqVars, filterVars, unitVars>>

---------------------------------------------------------------------------
(* webhook(): POST /webhook.                                               *)

\* jsonify({"status": "ok"}), 200
Ack == [code |-> 200, body |-> [status |-> "ok"]]
\* jsonify({"status": "error", "message": ...}), code
Error(code, message) ==
    [code |-> code, body |-> [status |-> "error", message |-> message]]

\* request.get_json() of a JSON request: the document, or BadRequest
get_json(request_data) ==
    IF request_data.json THEN [exc |-> FALSE, val |-> request_data.doc]
    ELSE [exc |-> TRUE, val |-> PyNone]

\* the handler up to the reading of the bot token: how it ends (a response,
\* or the locals it goes on with) and whether it read the token
Responds(resp, read) ==
    [next |-> "done", response |-> resp, token_read |-> read,
     group_id |-> PyNone, app_token |-> PyNone]
GoesOn(group, token) ==
    [next |-> "fetch", response |-> NoResponse, token_read |-> TRUE,
     group_id |-> group, app_token |-> token]

\* "except Exception": the handler's own last resort
Caught == Responds(Ack, FALSE)

\* a trigger test that forgets .strip()
TriggerMatchesUntrimmed(text) == lower(text) = BacklogWord

\* message_text = text.strip(); message_text.lower() == 'backlog'
TriggerMatches(text) == lower(strip(text)) = BacklogWord

\* a reading of the chat's 'id' where the event carries 'group_id'
chat_id(chat_data) == dict_get(chat_data.v, "id", PyStr(<<>>))

\* chat_data.get('group_id', '')
chat_group_id(chat_data) == dict_get(chat_data.v, "group_id", PyStr(<<>>))

webhook_message(e, doc) ==
    LET message_data == dict_get(doc.v, "message", EmptyDict)
        text == dict_get(message_data.v, "text", PyStr(<<>>))
        chat_data == dict_get(doc.v, "chat", EmptyDict)
    IN IF message_data.k # "dict" THEN Caught
       ELSE IF text.k # "str" THEN Caught
       ELSE IF chat_data.k # "dict" THEN Caught
       ELSE IF ~TriggerMatches(text.v) THEN Responds(Ack, FALSE)
       ELSE IF ~Truthy(e.SEATALK_APP_TOKEN)
            THEN Responds(Error(500, "Bot token not configured"), TRUE)
       ELSE GoesOn(chat_group_id(chat_data), e.SEATALK_APP_TOKEN)

webhook_event(e, doc) ==
    IF ~Truthy(doc) THEN Responds(Error(400, "Invalid JSON"), FALSE)
    ELSE IF doc.k # "dict" THEN Caught
    ELSE IF dict_get(doc.v, "event_type", PyStr(<<>>)) # MsgNew
         THEN Responds(Ack, FALSE)
    ELSE webhook_message(e, doc)

webhook_authenticated(e, req) ==
    IF get_json(req.body).exc THEN Caught
    ELSE webhook_event(e, get_json(req.body).val)

\* a handler that verifies against a built-in key when none is configured
SignatureRejectedByDefaultKey(e, req) ==
    ~verify_webhook_signature(req.body, req.signature,
                              IF Truthy(e.SIGNING_SECRET) THEN e.SIGNING_SECRET
                              ELSE PyStr(Secret1))

SignatureRejected(e, req) ==
    /\ Truthy(e.SIGNING_SECRET)
    /\ ~verify_webhook_signature(req.body, req.signature, e.SIGNING_SECRET)

webhook_begin(e, req) ==
    IF SignatureRejected(e, req)
    THEN Responds(Error(401, "Invalid signature"), FALSE)
    ELSE webhook_authenticated(e, req)

\* what the spreadsheet service may answer: a failure (bad credentials,
\* no such spreadsheet or worksheet, network) or the sheet's records
Cell(s) == PyStr(s)
FixBug == <<"F", "i", "x", " ", "b", "u", "g">>
Shipped == <<"S", "h", "i", "p", "p", "e", "d">>
Done == <<"D", "o", "n", "e">>

SampleSheets ==
    { <<>>,
      << << <<"Status", Cell(TextBacklog)>>, <<"Tarefa", Cell(FixBug)>> >>,
         << <<"Status", Cell(Done)>>, <<"Tarefa", Cell(Shipped)>> >> >>,
      << << <<"Status", Cell(Done)>>, <<"Tarefa", Cell(Shipped)>> >> >>,
      << << <<"Status", Cell(TextBacklog)>>, <<"Tarefa", Cell(FixBug)>> >>,
         << <<"Status", PyInt(3)>>, <<"Tarefa", Cell(Shipped)>> >> >> }

FetchOutcomes ==
    {[ok |-> FALSE, called |-> TRUE, data |-> <<>>]}
    \cup {[ok |-> TRUE, called |-> TRUE, data |-> sheet] : sheet \in SampleSheets}

\* get_backlog_tasks(): the configuration is read, the records fetched and
\* filtered; every exception is logged and raised again
get_backlog_tasks(e, outcome) ==
    IF ~Truthy(e.GOOGLE_CREDENTIALS_BASE64) \/ ~Truthy(e.SHEET_ID)
    THEN [exc |-> TRUE, tasks |-> <<>>]
    ELSE IF ~outcome.ok THEN [exc |-> TRUE, tasks |-> <<>>]
    ELSE [exc |-> backlog_loop(outcome.data, 1, <<>>).exc,
          tasks |-> NamesOf(backlog_loop(outcome.data, 1, <<>>).entries)]

\* a handler that answers a failed read with the empty-backlog text
reply_text_hiding_failure(e, outcome) ==
    format_backlog_message(get_backlog_tasks(e, outcome).tasks)

\* the try/except around get_backlog_tasks and format_backlog_message
reply_text(e, outcome) ==
    IF get_backlog_tasks(e, outcome).exc THEN ErrorMessage
    ELSE format_backlog_message(get_backlog_tasks(e, outcome).tasks)

TokenCall == [op |-> "token"]
FetchCall == [op |-> "fetch"]
SendCall(group, text, token, ok) ==
    [op |-> "send", group_id |-> group, text |-> text, token |-> token,
     ok |-> ok]

\* a request arrives
Receive(r) ==
    /\ server = "serving"
    /\ pc[r] = "idle"
    /\ \E req \in Requests : request' = [request EXCEPT ![r] = req]
    /\ pc' = [pc EXCEPT ![r] = "received"]
    /\ UNCHANGED <<env, launch, server, response, group_id, app_token,
                   fetched, response_message, calls, filterVars, unitVars>>

\* a handler that keeps group_id in a module-level variable
DispatchSharedGroup(r) ==
    /\ pc[r] = "received"
    /\ LET out == webhook_begin(env, request[r])
       IN /\ pc' = [pc EXCEPT ![r] = out.next]
          /\ response' = [response EXCEPT ![r] = out.response]
          /\ group_id' = [q \in Reqs |-> out.group_id]
          /\ app_token' = [app_token EXCEPT ![r] = out.app_token]
          /\ calls' = [calls EXCEPT ![r] =
                          IF out.token_read THEN <<TokenCall>> ELSE <<>>]
    /\ UNCHANGED <<env, launch, server, request, fetched, response_message,
                   filterVars, unitVars>>

\* webhook() from its first line to the reading of SEATALK_APP_TOKEN
Dispatch(r) ==
    /\ pc[r] = "received"
    /\ LET out == webhook_begin(env, request[r])
       IN /\ pc' = [pc EXCEPT ![r] = out.next]
          /\ response' = [response EXCEPT ![r] = out.response]
          /\ group_id' = [group_id EXCEPT ![r] = out.group_id]
          /\ app_token' = [app_token EXCEPT ![r] = out.app_token]
          /\ calls' = [calls EXCEPT ![r] =
                          IF out.token_read THEN <<TokenCall>> ELSE <<>>]
    /\ UNCHANGED <<env, launch, server, request, fetched, response_message,
                   filterVars, unitVars>>

\* webhook(): get_backlog_tasks() and format_backlog_message(), or the
\* error text
FetchAndFormat(r) ==
    /\ pc[r] = "fetch"
    /\ \E outcome \in FetchOutcomes :
          LET got == IF Truthy(env.GOOGLE_CREDENTIALS_BASE64)
                        /\ Truthy(env.SHEET_ID)
                     THEN outcome ELSE NoFetch
          IN /\ fetched' = [fetched EXCEPT ![r] = got]
             /\ response_message' =
                   [response_message EXCEPT ![r] = reply_text(env, got)]
    /\ calls' = [calls EXCEPT ![r] = Append(@, FetchCall)]
    /\ pc' = [pc EXCEPT ![r] = "send"]
    /\ UNCHANGED <<env, launch, server, request, response, group_id,
                   app_token, filterVars, unitVars>>

\* a handler that sends a second time when the first send failed
SendWithRetry(r) ==
    /\ pc[r] = "send"
    /\ \E ok \in BOOLEAN :
          LET sent == SendCall(group_id[r], response_message[r], app_token[r],
                               ok)
          IN calls' = [calls EXCEPT ![r] =
                          IF ok THEN Append(@, sent)
                          ELSE Append(Append(@, sent), sent)]
    /\ response' = [response EXCEPT ![r] = Ack]
    /\ pc' = [pc EXCEPT ![r] = "done"]
    /\ UNCHANGED <<env, launch, server, request, group_id, app_token,
                   fetched, response_message, filterVars, unitVars>>

\* webhook(): send_seatalk_message(), whose result is only logged, and the
\* final acknowledgement
Send(r) ==
    /\ pc[r] = "send"
    /\ \E ok \in BOOLEAN :
          calls' = [calls EXCEPT ![r] =
                       Append(@, SendCall(group_id[r], response_message[r],
                                          app_token[r], ok))]
    /\ response' = [response EXCEPT ![r] = Ack]
    /\ pc' = [pc EXCEPT ![r] = "done"]
    /\ UNCHANGED <<env, launch, server, request, group_id, app_token,
                   fetched, response_message, filterVars, unitVars>>

\* the handling of one request
Serve(r) == Receive(r) \/ Dispatch(r) \/ FetchAndFormat(r) \/ Send(r)

Next == StartMain \/ StartWsgi \/ Serve(1)

Spec == Init /\ [][Next]_vars

---------------------------------------------------------------------------
(* The row filter run alone, on every sheet of at most MaxRows rows over   *)
(* the headers below.                                                      *)

NameA == <<"A">>
NamePadded == <<" ", "B", " ">>
Blank == <<" ", " ">>

StatusCells ==
    {Cell(TextBacklog), Cell(TextPadded), Cell(Done), Cell(TextBacklogs),
     Cell(<<>>), PyInt(3)}
NameCells ==
    {Cell(NameA), Cell(<<"A", " ">>), Cell(NamePadded), Cell(Blank), PyInt(0),
     PyInt(7)}

\* the values a cell of each column takes
CellsOf(col) ==
    CASE col = "Status" -> StatusCells
      [] col = "status" -> {Cell(TextBacklog), Cell(Done), PyInt(0)}
      [] col = "Tarefa" -> NameCells
      [] col = "Nome da tarefa" -> {Cell(FixBug), Cell(<<>>)}
      [] col = "tarefa" -> {Cell(Shipped), Cell(<<>>)}
      [] col = "nome" -> {Cell(NameA), Cell(NamePadded), Cell(<<>>)}
      [] OTHER -> {Cell(NameA), Cell(<<>>)}

\* the header rows: the sheet's columns in order
Headers ==
    { <<"Status", "Tarefa">>,
      <<"nome", "status">>,
      <<"Item", "Status">>,
      <<"Status">>,
      <<"Status", "status", "Nome da tarefa">>,
      <<"tarefa", "Tarefa", "status">>,
      <<"Item", "Tarefa">> }

Columns == UNION {{header[c] : c \in 1..Len(header)} : header \in Headers}
AllCells == UNION {CellsOf(col) : col \in Columns}

\* get_all_records(): one ordered dict per data row, keyed by the header
RowsOver(header) ==
    {[c \in 1..Len(header) |-> <<header[c], cells[c]>>] :
        cells \in {f \in [1..Len(header) -> AllCells] :
                      \A c \in 1..Len(header) : f[c] \in CellsOf(header[c])}}

Sheets == UNION {[1..n -> RowsOver(header)] : n \in 0..MaxRows, header \in Headers}

InitFilter ==
    /\ env = [SIGNING_SECRET |-> PyNone, SEATALK_APP_TOKEN |-> Token1,
              GOOGLE_CREDENTIALS_BASE64 |-> Present, SHEET_ID |-> Present]
    /\ launch = "wsgi"
    /\ server = "boot"
    /\ pc = [r \in Reqs |-> "idle"]
    /\ request = [r \in Reqs |-> NoRequest]
    /\ response = [r \in Reqs |-> NoResponse]
    /\ group_id = [r \in Reqs |-> PyNone]
    /\ app_token = [r \in Reqs |-> PyNone]
    /\ fetched = [r \in Reqs |-> NoFetch]
    /\ response_message = [r \in Reqs |-> <<>>]
    /\ calls = [r \in Reqs |-> <<>>]
    /\ data \in Sheets
    /\ filtered = NoFilter
    /\ tasks = <<>>
    /\ formatted = NoMessage
    /\ signed = NoSigned
    /\ verified = NoVerdict

\* the loop of get_backlog_tasks over data
RunFilter ==
    /\ ~filtered.ran
    /\ filtered' = [ran |-> TRUE,
                    exc |-> backlog_loop(data, 1, <<>>).exc,
                    entries |-> backlog_loop(data, 1, <<>>).entries]
    /\ UNCHANGED <<env, launch, server, reqVars, data, unitVars>>

NextFilter == RunFilter

SpecFilter == InitFilter /\ [][NextFilter]_vars

---------------------------------------------------------------------------
(* format_backlog_message() run alone on task lists.                       *)

NameB == <<"B">>
NameTwoLines == <<"C", "\n", "D">>
NameBulleted == <<"U+2022", " ", "E">>

\* task names given to the formatter: plain ones, one holding a line break
\* (strip() keeps line breaks inside a name) and one that starts like a
\* bullet
TaskNames == {NameA, NameB, NameTwoLines, NameBulleted, TextBacklog}

TaskLists == UNION {[1..n -> TaskNames] : n \in 0..MaxTasks}

\* the process variables of a run that serves no request
NotServing ==
    /\ env = [SIGNING_SECRET |-> PyNone, SEATALK_APP_TOKEN |-> Token1,
              GOOGLE_CREDENTIALS_BASE64 |-> Present, SHEET_ID |-> Present]
    /\ launch = "wsgi"
    /\ server = "boot"
    /\ pc = [r \in Reqs |-> "idle"]
    /\ request = [r \in Reqs |-> NoRequest]
    /\ response = [r \in Reqs |-> NoResponse]
    /\ group_id = [r \in Reqs |-> PyNone]
    /\ app_token = [r \in Reqs |-> PyNone]
    /\ fetched = [r \in Reqs |-> NoFetch]
    /\ response_message = [r \in Reqs |-> <<>>]
    /\ calls = [r \in Reqs |-> <<>>]
    /\ data = <<>>
    /\ filtered = NoFilter

InitFormat ==
    /\ NotServing
    /\ tasks \in TaskLists
    /\ formatted = NoMessage
    /\ signed = NoSigned
    /\ verified = NoVerdict

RunFormat ==
    /\ ~formatted.ran
    /\ formatted' = [ran |-> TRUE, message |-> format_backlog_message(tasks)]
    /\ UNCHANGED <<env, launch, server, reqVars, filterVars, tasks, signed,
                   verified>>

NextFormat == RunFormat

SpecFormat == InitFormat /\ [][NextFormat]_vars

---------------------------------------------------------------------------
(* verify_webhook_signature() run alone on (body, signature, secret).      *)

\* signing secrets given to the verifier: none, empty, and two keys
Secrets ==
    {PyNone, PyStr(<<>>)} \cup {PyStr(SecretKeys[n]) : n \in 1..Len(SecretKeys)}

SignedInputs ==
    UNION {[body : {raw}, signature : SignaturesFor(raw), secret : Secrets] :
              raw \in RawBodies}

InitVerify ==
    /\ NotServing
    /\ tasks = <<>>
    /\ formatted = NoMessage
    /\ signed \in SignedInputs
    /\ verified = NoVerdict

RunVerify ==
    /\ ~verified.ran
    /\ verified' = [ran |-> TRUE,
                    valid |-> verify_webhook_signature(signed.body,
                                                       signed.signature,
                                                       signed.secret)]
    /\ UNCHANGED <<env, launch, server, reqVars, filterVars, tasks, formatted,
                   signed>>

NextVerify == RunVerify

SpecVerify == InitVerify /\ [][NextVerify]_vars

---------------------------------------------------------------------------
(* Several requests in flight at once: Flask's development server and any  *)
(* threaded WSGI server run webhook() once per request, in any             *)
(* interleaving. The inputs are a few of those of Spec.                    *)

TriggerG1 == RawBody(Document(MsgNew, Text(TextBacklog), Chat(G1), Absent), 0)
TriggerG2 == RawBody(Document(MsgNew, Text(TextPadded), Chat(G2), Absent), 0)

\* a trigger with the digest under Secret1, with no signature header and
\* with a digest under another key; a trigger of another group; a body
\* that is not JSON
ConcurrentRequests ==
    {[body |-> TriggerG1, signature |-> hmac_hexdigest(Secret1, TriggerG1)],
     [body |-> TriggerG1, signature |-> <<>>],
     [body |-> TriggerG1, signature |-> hmac_hexdigest(Secret2, TriggerG1)],
     [body |-> TriggerG2, signature |-> hmac_hexdigest(Secret1, TriggerG2)],
     [body |-> MalformedBody,
      signature |-> hmac_hexdigest(Secret1, MalformedBody)]}

\* what the spreadsheet service answers: a failure, or a backlog task and
\* a finished one
ConcurrentFetches ==
    {[ok |-> FALSE, called |-> TRUE, data |-> <<>>],
     [ok |-> TRUE, called |-> TRUE,
      data |-> << << <<"Status", Cell(TextBacklog)>>,
                     <<"Tarefa", Cell(FixBug)>> >>,
                  << <<"Status", Cell(Done)>>,
                     <<"Tarefa", Cell(Shipped)>> >> >>]}

ConcurrentEnvs ==
    {e \in Envs : /\ Truthy(e.GOOGLE_CREDENTIALS_BASE64)
                  /\ Truthy(e.SHEET_ID)
                  /\ e.SIGNING_SECRET \in {PyNone, PyStr(Secret1)}}

InitConcurrent ==
    /\ Init
    /\ env \in ConcurrentEnvs

ReceiveSome(r) ==
    /\ Receive(r)
    /\ request'[r] \in ConcurrentRequests

FetchSome(r) ==
    /\ FetchAndFormat(r)
    /\ fetched'[r] \in ConcurrentFetches

ServeSome(r) == ReceiveSome(r) \/ Dispatch(r) \/ FetchSome(r) \/ Send(r)

NextConcurrent == StartMain \/ StartWsgi \/ \E r \in Reqs : ServeSome(r)

SpecConcurrent == InitConcurrent /\ [][NextConcurrent]_vars

---------------------------------------------------------------------------
(* Properties.                                                             *)

Doc(r) == request[r].body.doc
Parsed(r) == request[r].body.json
IsObject(x) == x.k = "dict"
HasField(x, f) == IsObject(x) /\ f \in DOMAIN x.v
Answered(r) == pc[r] = "done"
Handled(r) == pc[r] \notin {"idle", "received"}
Acknowledged(r) == response[r].code = 200 /\ response[r].body.status = "ok"
OpsOf(r) == {calls[r][n].op : n \in DOMAIN calls[r]}
SendsOf(r) == {n \in DOMAIN calls[r] : calls[r][n].op = "send"}

SecretConfigured == env.SIGNING_SECRET.k = "str" /\ env.SIGNING_SECRET.v # <<>>

\* the signature header is empty or is not the digest of the raw body
BadSignature(r) ==
    \/ request[r].signature = <<>>
    \/ lower(request[r].signature)
          # hmac_hexdigest(env.SIGNING_SECRET.v, request[r].body)

FailsAuthentication(r) == SecretConfigured /\ BadSignature(r)

IsNewMessage(r) ==
    /\ Parsed(r)
    /\ HasField(Doc(r), "event_type")
    /\ Doc(r).v.event_type.k = "str"
    /\ Doc(r).v.event_type.v = NewMessage

\* the event carries a message text that is the trigger word
TextIsTrigger(r) ==
    /\ Parsed(r)
    /\ HasField(Doc(r), "message")
    /\ HasField(Doc(r).v.message, "text")
    /\ Doc(r).v.message.v.text.k = "str"
    /\ lower(strip(Doc(r).v.message.v.text.v)) = BacklogWord

ChatIsObjectOrAbsent(r) ==
    Parsed(r) /\ IsObject(Doc(r))
    /\ ("chat" \in DOMAIN Doc(r).v => IsObject(Doc(r).v.chat))

\* the chat identifier of the event, '' when it carries none
EventChatId(r) ==
    IF HasField(Doc(r), "chat") /\ HasField(Doc(r).v.chat, "group_id")
    THEN Doc(r).v.chat.v.group_id
    ELSE PyStr(<<>>)

\* the request gets past authentication, classification and trigger check
Triggered(r) ==
    /\ ~FailsAuthentication(r)
    /\ IsNewMessage(r)
    /\ TextIsTrigger(r)
    /\ ChatIsObjectOrAbsent(r)

TokenAvailable == env.SEATALK_APP_TOKEN.k = "str" /\ env.SEATALK_APP_TOKEN.v # <<>>

\* C1: every request that does not fail signature authentication is
\* answered with status 200 (no such request ends in 400 or 500).
C1_NonAuthPathsAnswer200 ==
    \A r \in Reqs :
        (Answered(r) /\ ~FailsAuthentication(r)) => response[r].code = 200

HasChallenge(r) == Parsed(r) /\ HasField(Doc(r), "seatalk_challenge")

\* C2: a request whose parsed body has the challenge field is answered
\* with exactly that challenge value (bare, or in a field of the same
\* name), whatever its other fields and its signature header.
C2_ChallengeEchoed ==
    \A r \in Reqs :
        (Answered(r) /\ HasChallenge(r)) =>
            /\ "seatalk_challenge" \in DOMAIN response[r].body
            /\ response[r].body.seatalk_challenge = Doc(r).v.seatalk_challenge

\* C3: with a signing secret configured, a request whose signature header
\* is empty or is not the HMAC of its raw body is answered 401, and no
\* token is read, no rows are fetched and no message is sent for it.
C3_BadSignatureRejected ==
    \A r \in Reqs :
        (Handled(r) /\ SecretConfigured /\ BadSignature(r)) =>
            /\ Answered(r)
            /\ response[r].code = 401
            /\ calls[r] = <<>>

\* a rejected trigger request signed, under the right secret, for another
\* byte layout of the same document
C3_Witness ==
    \E r \in Reqs :
        /\ Answered(r) /\ SecretConfigured
        /\ request[r].body.layout # OtherBody(request[r].body).layout
        /\ request[r].body.doc = OtherBody(request[r].body).doc
        /\ request[r].signature
              = hmac_hexdigest(env.SIGNING_SECRET.v, OtherBody(request[r].body))
        /\ TextIsTrigger(r)
        /\ response[r].code = 401

\* C4: a request whose body is not parseable, or parses to a document
\* with no fields, is not rejected: it is acknowledged and no outbound
\* call is made.
C4_EmptyEventAcknowledged ==
    \A r \in Reqs :
        (/\ Answered(r) /\ ~FailsAuthentication(r)
         /\ (~Parsed(r) \/ (IsObject(Doc(r)) /\ DOMAIN Doc(r).v = {}))) =>
            Acknowledged(r) /\ calls[r] = <<>>

\* C5: a request that matches the trigger while no access token can be
\* had sends no message and is still answered with status 200.
C5_NoTokenStillAcknowledged ==
    \A r \in Reqs :
        (Answered(r) /\ Triggered(r) /\ ~TokenAvailable) =>
            response[r].code = 200 /\ "send" \notin OpsOf(r)

\* the resolved status of a row: "Status" if present, else "status", else ''
ResolvedStatus(row) ==
    IF HasColumn(row, "Status") THEN row_get(row, "Status", PyNone)
    ELSE IF HasColumn(row, "status") THEN row_get(row, "status", PyNone)
    ELSE PyStr(<<>>)

\* the read of the backlog failed: the fetch did, or the filter met a
\* status it cannot trim (a non-zero number)
ReadFailed(r) ==
    \/ ~fetched[r].ok
    \/ \E n \in DOMAIN fetched[r].data :
          /\ ResolvedStatus(fetched[r].data[n]).k = "int"
          /\ ResolvedStatus(fetched[r].data[n]).v # 0

\* C6: when the fetch, the filter or the formatter of a triggered request
\* with a token fails, the text sent is the fixed error message.
C6_FailureSendsErrorMessage ==
    \A r \in Reqs :
        \A n \in SendsOf(r) :
            ReadFailed(r) => calls[r][n].text = ErrorMessage

\* the fetch itself failed and the error message went out
C6_Witness ==
    \E r \in Reqs :
        /\ Answered(r)
        /\ fetched[r].called /\ ~fetched[r].ok
        /\ \E n \in SendsOf(r) : calls[r][n].text = ErrorMessage

ReplyFlowRan(r) == calls[r] # <<>>

\* C8 as stated: for a new-message event the reply flow runs iff the
\* trimmed, lower-cased text is the trigger word; otherwise the request
\* is acknowledged with no fetch and no send.
C8_ReplyIffTextIsTrigger ==
    \A r \in Reqs :
        (Handled(r) /\ ~FailsAuthentication(r) /\ IsNewMessage(r)) =>
            /\ ReplyFlowRan(r) <=> TextIsTrigger(r)
            /\ ~TextIsTrigger(r) =>
                  /\ Acknowledged(r)
                  /\ OpsOf(r) \cap {"fetch", "send"} = {}

\* C8 amended: for a new-message event the reply flow runs iff the text is
\* the trigger word and the chat field is absent or an object; in every
\* other case the request is acknowledged with no fetch and no send.
C8_ReplyIffTriggerAndChatObject ==
    \A r \in Reqs :
        (Handled(r) /\ ~FailsAuthentication(r) /\ IsNewMessage(r)) =>
            /\ ReplyFlowRan(r) <=> (TextIsTrigger(r) /\ ChatIsObjectOrAbsent(r))
            /\ ~(TextIsTrigger(r) /\ ChatIsObjectOrAbsent(r)) =>
                  /\ Acknowledged(r)
                  /\ OpsOf(r) \cap {"fetch", "send"} = {}

\* the padded upper-case trigger text was answered with a reply
C8_Witness ==
    \E r \in Reqs :
        /\ Answered(r) /\ IsNewMessage(r) /\ TextIsTrigger(r)
        /\ Doc(r).v.message.v.text.v = TextPadded
        /\ "send" \in OpsOf(r)

\* C9: a request whose event type is not the new-message type (or is
\* missing) is acknowledged, and no token is read, no rows are fetched
\* and no message is sent, even when its text is the trigger word.
C9_OtherEventsAcknowledged ==
    \A r \in Reqs :
        (Answered(r) /\ ~FailsAuthentication(r) /\ ~IsNewMessage(r)) =>
            Acknowledged(r) /\ calls[r] = <<>>

\* C10: the row filter returns at most as many tasks as there are rows,
\* and every returned task comes from a row whose resolved status, trimmed
\* and lower-cased, is exactly "backlog".
C10_TasksComeFromBacklogRows ==
    (filtered.ran /\ ~filtered.exc) =>
        /\ Len(filtered.entries) <= Len(data)
        /\ \A n \in DOMAIN filtered.entries :
              /\ filtered.entries[n].row \in DOMAIN data
              /\ ResolvedStatus(data[filtered.entries[n].row]).k = "str"
              /\ lower(strip(ResolvedStatus(data[filtered.entries[n].row]).v))
                    = BacklogWord

\* a sheet with a lower-case "status" column from which one row of
\* several was returned
C10_Witness ==
    /\ filtered.ran /\ ~filtered.exc
    /\ Len(filtered.entries) = 1
    /\ Len(data) > 1
    /\ ~HasColumn(data[1], "Status")
    /\ filtered.entries[1].row = 2

\* the task-name columns in their order of priority
CandidateColumns == <<"Nome da tarefa", "Tarefa", "tarefa", "nome">>

\* the resolved name of a row: the value of the first candidate column it
\* has, else the value of its first column
ResolvedName(row) ==
    LET present == {c \in 1..Len(CandidateColumns) :
                       HasColumn(row, CandidateColumns[c])}
    IN IF present # {}
       THEN row_get(row, CandidateColumns[CHOOSE c \in present :
                                             \A d \in present : c <= d], PyNone)
       ELSE IF row # <<>> THEN row[1][2]
       ELSE PyNone

\* the row's resolved status is exactly "backlog"
IsBacklogRow(row) ==
    /\ ResolvedStatus(row).k = "str"
    /\ lower(strip(ResolvedStatus(row).v)) = BacklogWord

\* the row's resolved name is a string that is empty once trimmed
NameIsBlank(row) ==
    ResolvedName(row).k = "str" /\ strip(ResolvedName(row).v) = <<>>

\* the row's resolved name is a non-empty string once trimmed
NameIsText(row) ==
    ResolvedName(row).k = "str" /\ strip(ResolvedName(row).v) # <<>>

ReturnedRows == {filtered.entries[n].row : n \in DOMAIN filtered.entries}

\* C11: no task name returned by the row filter is empty: a matching row
\* whose resolved name is empty after trimming is skipped, and every name
\* returned is already trimmed.
C11_NamesNonEmptyAndTrimmed ==
    (filtered.ran /\ ~filtered.exc) =>
        /\ \A n \in DOMAIN filtered.entries :
              /\ filtered.entries[n].name # <<>>
              /\ filtered.entries[n].name[1] \notin Whitespace
              /\ filtered.entries[n].name[Len(filtered.entries[n].name)]
                    \notin Whitespace
        /\ \A i \in DOMAIN data :
              (IsBacklogRow(data[i]) /\ NameIsBlank(data[i])) =>
                  i \notin ReturnedRows

\* a backlog row named by blanks was skipped and a padded name was
\* returned trimmed
C11_Witness ==
    /\ filtered.ran /\ ~filtered.exc
    /\ Len(data) = 2
    /\ IsBacklogRow(data[1]) /\ ResolvedName(data[1]) = Cell(Blank)
    /\ IsBacklogRow(data[2]) /\ ResolvedName(data[2]) = Cell(NamePadded)
    /\ NamesOf(filtered.entries) = << <<"B">> >>

\* C17: the filter's output follows the order of the rows (the task of
\* row i precedes the task of row j when i < j), and two matching rows
\* with the same name yield two entries.
C17_OrderKeptNoDeduplication ==
    (filtered.ran /\ ~filtered.exc) =>
        /\ \A n, m \in DOMAIN filtered.entries :
              n < m => filtered.entries[n].row < filtered.entries[m].row
        /\ \A i, j \in DOMAIN data :
              (/\ i < j
               /\ IsBacklogRow(data[i]) /\ NameIsText(data[i])
               /\ IsBacklogRow(data[j]) /\ NameIsText(data[j])
               /\ strip(ResolvedName(data[i]).v) = strip(ResolvedName(data[j]).v)) =>
                  \E n, m \in DOMAIN filtered.entries :
                      /\ n < m
                      /\ filtered.entries[n].row = i
                      /\ filtered.entries[m].row = j
                      /\ filtered.entries[n].name = filtered.entries[m].name

\* two rows naming the same task, spelled with different padding, both
\* returned
C17_Witness ==
    /\ filtered.ran /\ ~filtered.exc
    /\ Len(data) = 2
    /\ ResolvedName(data[1]) = Cell(<<"A", " ">>)
    /\ ResolvedName(data[2]) = Cell(NameA)
    /\ NamesOf(filtered.entries) = <<NameA, NameA>>

\* C18: the name of a matching row is the value of the first candidate
\* column it has, in the order "Nome da tarefa", "Tarefa", "tarefa",
\* "nome"; the first column is used only when it has none of them, and a
\* candidate column that is present and empty is not replaced by it.
C18_NameFromFirstCandidateColumn ==
    (filtered.ran /\ ~filtered.exc) =>
        /\ \A n \in DOMAIN filtered.entries :
              filtered.entries[n].name
                  = strip(str(ResolvedName(data[filtered.entries[n].row])))
        /\ \A i \in DOMAIN data :
              (/\ IsBacklogRow(data[i])
               /\ \E c \in 1..Len(CandidateColumns) :
                     HasColumn(data[i], CandidateColumns[c])
               /\ ResolvedName(data[i]) = Cell(<<>>)) =>
                  i \notin ReturnedRows

\* "Tarefa" named the task although "tarefa" is the first column and holds
\* another name
C18_Witness ==
    /\ filtered.ran /\ ~filtered.exc
    /\ Len(data) = 1
    /\ HasColumn(data[1], "tarefa")
    /\ data[1][1] = <<"tarefa", Cell(Shipped)>>
    /\ row_get(data[1], "Tarefa", PyNone) = Cell(NameA)
    /\ NamesOf(filtered.entries) = <<NameA>>

RECURSIVE HeaderThenBullets(_, _)
\* the header line followed by the bullet lines of the first n tasks, every
\* bullet line started by a line break
HeaderThenBullets(task_list, n) ==
    IF n = 0 THEN HeaderLine
    ELSE HeaderThenBullets(task_list, n - 1) \o <<"\n">> \o Bullet \o task_list[n]

\* C12: the formatter returns the fixed empty-backlog message for an empty
\* list, and for n > 0 tasks the header line followed by exactly n bullet
\* lines, the i-th being the bullet mark and a space followed by the i-th
\* task, in input order.
C12_HeaderThenOneBulletPerTask ==
    formatted.ran =>
        /\ tasks = <<>> => formatted.message = EmptyBacklogMessage
        /\ tasks # <<>> =>
              /\ formatted.message = HeaderThenBullets(tasks, Len(tasks))
              /\ Len(formatted.message)
                    = Len(HeaderLine) + 3 * Len(tasks)
                        + Len(join(<<>>, tasks))

\* three different tasks, the first one not the smallest, formatted
C12_Witness ==
    /\ formatted.ran
    /\ tasks = <<NameB, NameA, NameTwoLines>>
    /\ formatted.message
          = HeaderLine \o <<"\n", "U+2022", " ", "B", "\n", "U+2022", " ", "A",
                            "\n", "U+2022", " ", "C", "\n", "D">>

\* the digest a request signed with the secret carries
ExpectedDigest == hmac_hexdigest(signed.secret.v, signed.body)

\* C13: with a non-empty secret, verification passes exactly when the
\* signature, compared without regard to case, equals the hex HMAC of the
\* body under the secret; the digest of the same body under the same secret
\* passes, the digest of another body or under another secret fails.
C13_PassesIffSignatureIsDigest ==
    (verified.ran /\ Truthy(signed.secret)) =>
        /\ verified.valid <=> (lower(signed.signature) = ExpectedDigest)
        /\ signed.signature \in {ExpectedDigest, upper(ExpectedDigest)}
              => verified.valid
        /\ \A n \in 1..Len(SecretKeys), b \in RawBodies :
              (/\ <<SecretKeys[n], b>> # <<signed.secret.v, signed.body>>
               /\ signed.signature \in {hmac_hexdigest(SecretKeys[n], b),
                                        upper(hmac_hexdigest(SecretKeys[n], b))})
                  => ~verified.valid

\* an upper-case digest of this body under this secret accepted
C13_Witness ==
    /\ verified.ran
    /\ signed.secret = PyStr(Secret2)
    /\ signed.signature = upper(ExpectedDigest)
    /\ signed.signature # ExpectedDigest
    /\ verified.valid

\* every required configuration value is present (set and not empty)
FullyConfigured ==
    \A var \in {"GOOGLE_CREDENTIALS_BASE64", "SHEET_ID", "SEATALK_APP_TOKEN"} :
        env[var].k = "str" /\ env[var].v # <<>>

\* C14: the process serves requests only if every required configuration
\* value is present at startup; with one missing it exits and no request
\* is ever handled.
C14_ServesOnlyFullyConfigured ==
    /\ server = "serving" => FullyConfigured
    /\ \A r \in Reqs : pc[r] # "idle" => FullyConfigured
    /\ (server # "boot" /\ ~FullyConfigured) => server = "exited"

\* the positions in the calls of request r at which operation op was done
CallsOf(r, op) == {n \in DOMAIN calls[r] : calls[r][n].op = op}

\* C15: within one request each outbound operation (token, fetch, send)
\* is done at most once; a failed send is not repeated, no second message
\* follows it, and the request is acknowledged with 200.
C15_EachOperationAtMostOnce ==
    \A r \in Reqs :
        /\ \A op \in {"token", "fetch", "send"} :
              Cardinality(CallsOf(r, op)) <= 1
        /\ (Answered(r) /\ \E n \in CallsOf(r, "send") : ~calls[r][n].ok) =>
              /\ Acknowledged(r)
              /\ Len(calls[r]) = 3
              /\ calls[r][3].op = "send"

\* a reply whose send failed, answered 200
C15_Witness ==
    /\ Answered(1)
    /\ Len(calls[1]) = 3
    /\ calls[1][3].op = "send"
    /\ ~calls[1][3].ok
    /\ calls[1][3].text # ErrorMessage
    /\ response[1] = Ack

\* the send of request r, when it has sent
SendOf(r) == calls[r][CHOOSE n \in CallsOf(r, "send") : TRUE]

\* C16: every triggered request acquires its own token before the row
\* fetch and its send uses that token; no token obtained in one request or
\* at startup is used by the send of another request.
C16_TokenAcquiredPerRequest ==
    /\ \A r \in Reqs :
          CallsOf(r, "send") # {} =>
              /\ \E t \in CallsOf(r, "token"), f \in CallsOf(r, "fetch") :
                    /\ t < f
                    /\ \A n \in CallsOf(r, "send") : f < n
              /\ SendOf(r).token = app_token[r]
    /\ \A r, q \in Reqs :
          (r # q /\ CallsOf(r, "send") # {} /\ CallsOf(q, "send") # {}) =>
              SendOf(r).token # SendOf(q).token

\* C19: when no signing secret is configured no request is answered 401,
\* and a request is processed the same whatever its signature header holds:
\* two requests with the same body, whose outbound calls had the same
\* outcomes, get the same response and make the same calls.
C19_NoSecretNoVerification ==
    ~SecretConfigured =>
        /\ \A r \in Reqs : response[r].code # 401
        /\ \A r, q \in Reqs :
              (/\ request[r].body = request[q].body
               /\ pc[r] = pc[q]
               /\ pc[r] # "idle"
               /\ fetched[r] = fetched[q]
               /\ \A n \in CallsOf(r, "send"), m \in CallsOf(q, "send") :
                     calls[r][n].ok = calls[q][m].ok) =>
                  /\ response[r] = response[q]
                  /\ calls[r] = calls[q]

\* with no secret, a trigger without signature header and the same
\* trigger with a digest under some key, both replied to
C19_Witness ==
    /\ env.SIGNING_SECRET = PyNone
    /\ request[1] = [body |-> TriggerG1, signature |-> <<>>]
    /\ request[2] = [body |-> TriggerG1,
                     signature |-> hmac_hexdigest(Secret2, TriggerG1)]
    /\ Answered(1) /\ Answered(2)
    /\ response[1] = Ack /\ response[2] = Ack
    /\ Len(calls[1]) = 3 /\ calls[1] = calls[2]

\* what request r, once answered, must have returned and called, from its
\* own input and the outcomes of its own calls
OwnOutcome(r) ==
    LET out == webhook_begin(env, request[r])
    IN IF out.next = "done"
       THEN /\ response[r] = out.response
            /\ calls[r] = IF out.token_read THEN <<TokenCall>> ELSE <<>>
       ELSE /\ response[r] = Ack
            /\ Len(calls[r]) = 3
            /\ calls[r][1] = TokenCall
            /\ calls[r][2] = FetchCall
            /\ calls[r][3].op = "send"
            /\ calls[r][3].group_id = out.group_id
            /\ calls[r][3].token = out.app_token
            /\ calls[r][3].text = reply_text(env, fetched[r])

\* C20: with requests handled concurrently in any interleaving, the
\* response and the outbound calls (target chat, text, token) of each
\* request depend only on its own input and on the outcomes of its own
\* calls; a failure in one request changes nothing in another.
C20_RequestsIsolated ==
    \A r \in Reqs :
        /\ Answered(r) => OwnOutcome(r)
        /\ pc[r] \in {"idle", "received"} =>
              /\ response[r] = NoResponse
              /\ calls[r] = <<>>

\* a request of group G1 rejected for its signature, and a request of
\* group G2 in flight with it that got its task list
C20_Witness ==
    /\ SecretConfigured
    /\ Answered(1) /\ Answered(2)
    /\ request[1].body = TriggerG1
    /\ request[2].body = TriggerG2
    /\ response[1].code = 401
    /\ response[2] = Ack
    /\ Len(calls[2]) = 3
    /\ calls[2][3].group_id = PyStr(G2)
    /\ fetched[2].ok
    /\ fetched[2].data # <<>>

=============================================================================
